---- MODULE Spec2Model ----
(***************************************************************************)
(* Model of the cursor-rules bot: the comment handlers of app/handlers.py, *)
(* the summary rendering of app/formatters.py, the merge of                *)
(* app/rule_applier.py and the suggestion records of app/server_state.py.  *)
(*                                                                         *)
(* Text is a sequence of tokens.  A token stands for one character or one  *)
(* indivisible word: "NL" is the newline, "SP" a space, "---" the          *)
(* frontmatter delimiter, "description:" and "globs:" the metadata keys,   *)
(* "QUOTE" the double quote, "," the comma; every other token is a word of *)
(* a document.  The string operations of the code (find, replace, split,   *)
(* startswith, endswith, strip) are the same operations on token           *)
(* sequences.  None and the empty string are both the empty sequence: the  *)
(* code tests these values for truthiness only.                            *)
(***************************************************************************)
EXTENDS Integers, Sequences, FiniteSets, TLC

\* ------------------------------------------------------------------ text

NL == "NL"
SP == "SP"
DELIM == "---"
DESC_KEY == "description:"
GLOBS_KEY == "globs:"

\* s[i:] of Python, i counted from 1
Suffix(s, i) == SubSeq(s, i, Len(s))

StartsWith(s, p) == Len(p) <= Len(s) /\ SubSeq(s, 1, Len(p)) = p

EndsWith(s, p) == Len(p) <= Len(s) /\ SubSeq(s, Len(s) - Len(p) + 1, Len(s)) = p

\* str.find: the first position (from 1) at or after `from` where p occurs, 0 when none
FindFrom(s, p, from) ==
    LET hits == {i \in from..(Len(s) - Len(p) + 1) : SubSeq(s, i, i + Len(p) - 1) = p}
    IN IF hits = {} THEN 0 ELSE CHOOSE i \in hits : \A j \in hits : i <= j

Find(s, p) == FindFrom(s, p, 1)

Contains(s, p) == Find(s, p) # 0

\* mutant: only the first occurrence is replaced
ReplaceFirst(s, old, new) ==
    IF Find(s, old) = 0 THEN s
    ELSE SubSeq(s, 1, Find(s, old) - 1) \o new \o Suffix(s, Find(s, old) + Len(old))

\* str.replace: every non-overlapping occurrence, left to right
RECURSIVE ReplaceAll(_, _, _)
ReplaceAll(s, old, new) ==
    LET i == Find(s, old)
    IN IF i = 0 THEN s
       ELSE SubSeq(s, 1, i - 1) \o new \o ReplaceAll(Suffix(s, i + Len(old)), old, new)

\* str.split(sep, maxsplit): a sequence of texts
RECURSIVE SplitMax(_, _, _)
SplitMax(s, sep, maxsplit) ==
    LET i == Find(s, sep)
    IN IF maxsplit = 0 \/ i = 0 THEN <<s>>
       ELSE <<SubSeq(s, 1, i - 1)>> \o SplitMax(Suffix(s, i + Len(sep)), sep, maxsplit - 1)

\* str.split('\n'): every line
SplitLines(s) == SplitMax(s, <<NL>>, Len(s))

IsSpace(t) == t \in {SP, NL}

\* every sequence over S of length at most n
SeqsUpTo(S, n) == UNION {[1..k -> S] : k \in 0..n}

\* str.strip
RECURSIVE LStrip(_)
LStrip(s) == IF s # <<>> /\ IsSpace(Head(s)) THEN LStrip(Tail(s)) ELSE s

RECURSIVE RStrip(_)
RStrip(s) == IF s # <<>> /\ IsSpace(s[Len(s)]) THEN RStrip(SubSeq(s, 1, Len(s) - 1)) ELSE s

Strip(s) == RStrip(LStrip(s))

\* ------------------------------------------------- merge_rule_changes

\* ", ".join(f'"{g}"' for g in globs)
RECURSIVE JoinQuoted(_)
JoinQuoted(globs) ==
    IF globs = <<>> THEN <<>>
    ELSE <<"QUOTE", Head(globs), "QUOTE">>
         \o (IF Len(globs) > 1 THEN <<",", SP>> ELSE <<>>)
         \o JoinQuoted(Tail(globs))

\* every change of every proposal, proposals and changes in list order
RECURSIVE FlattenChanges(_)
FlattenChanges(file_changes) ==
    IF file_changes = <<>> THEN <<>>
    ELSE Head(file_changes).changes \o FlattenChanges(Tail(file_changes))

\* every change of every proposal, proposals most recent first ("reversed(file_changes)")
RECURSIVE ReversedChanges(_)
ReversedChanges(file_changes) ==
    IF file_changes = <<>> THEN <<>>
    ELSE file_changes[Len(file_changes)].changes
         \o ReversedChanges(SubSeq(file_changes, 1, Len(file_changes) - 1))

SelectNewFile(changes) == SelectSeq(changes, LAMBDA c : c.is_new_file)

\* the contents of the new-file changes, one newline between two of them
RECURSIVE ConcatContents(_)
ConcatContents(changes) ==
    IF changes = <<>> THEN <<>>
    ELSE Head(changes).content
         \o (IF Len(changes) > 1 THEN <<NL>> ELSE <<>>)
         \o ConcatContents(Tail(changes))

\* mutant: the metadata of the first new-file change, the contents most recent first
MergeNewFile_first_wins(new_file_changes) ==
    LET first == new_file_changes[1]
        text == <<DELIM, NL, DESC_KEY, SP>> \o first.file_description \o <<NL>>
                \o <<GLOBS_KEY, SP>> \o JoinQuoted(first.file_globs) \o <<NL>>
                \o <<DELIM, NL, NL>>
                \o ConcatContents([i \in 1..Len(new_file_changes) |->
                                     new_file_changes[Len(new_file_changes) + 1 - i]])
    IN IF EndsWith(text, <<NL>>) THEN text ELSE text \o <<NL>>

\* the new-file branch: metadata of the latest new-file change, every content in order
MergeNewFile(new_file_changes) ==
    LET latest == new_file_changes[Len(new_file_changes)]
        text == <<DELIM, NL, DESC_KEY, SP>> \o latest.file_description \o <<NL>>
                \o <<GLOBS_KEY, SP>> \o JoinQuoted(latest.file_globs) \o <<NL>>
                \o <<DELIM, NL, NL>>
                \o ConcatContents(new_file_changes)
    IN IF EndsWith(text, <<NL>>) THEN text ELSE text \o <<NL>>

\* the value of the last line of the metadata block that starts with `key`, <<>> when none
RECURSIVE MetaValue(_, _, _)
MetaValue(lines, key, sofar) ==
    IF lines = <<>> THEN sofar
    ELSE MetaValue(Tail(lines), key,
                   IF StartsWith(Head(lines), <<key>>)
                   THEN Strip(Suffix(Head(lines), 2)) ELSE sofar)

\* the metadata block of a text that starts with the delimiter line
MetaBlock(content) ==
    IF StartsWith(content, <<DELIM, NL>>)
    THEN LET parts == SplitMax(content, <<DELIM, NL>>, 2)
         IN IF Len(parts) >= 2 THEN parts[2] ELSE <<>>
    ELSE <<>>

CurrentDescription(content) == MetaValue(SplitLines(MetaBlock(content)), DESC_KEY, <<>>)

CurrentGlobs(content) == MetaValue(SplitLines(MetaBlock(content)), GLOBS_KEY, <<>>)

\* mutant: an addition whose anchor is not found is left out
ApplyChange_drops_unanchored(final_content, change) ==
    IF change.type = "replacement" /\ change.text_to_replace # <<>>
    THEN ReplaceAll(final_content, change.text_to_replace, change.content)
    ELSE IF change.existing_content_context # <<>>
    THEN LET context_pos == Find(final_content, change.existing_content_context)
             context_end == context_pos + Len(change.existing_content_context) - 1
         IN IF context_pos # 0
            THEN SubSeq(final_content, 1, context_end) \o <<NL>> \o change.content
                 \o Suffix(final_content, context_end + 1)
            ELSE final_content
    ELSE IF change.content # <<>>
    THEN (IF final_content # <<>> /\ ~EndsWith(final_content, <<NL>>)
          THEN final_content \o <<NL>> ELSE final_content) \o change.content
    ELSE final_content

\* one change applied to the text being built
ApplyChange(final_content, change) ==
    IF change.type = "replacement" /\ change.text_to_replace # <<>>
    THEN ReplaceAll(final_content, change.text_to_replace, change.content)
    ELSE IF change.existing_content_context # <<>>
    THEN LET context_pos == Find(final_content, change.existing_content_context)
             context_end == context_pos + Len(change.existing_content_context) - 1
         IN IF context_pos # 0
            THEN SubSeq(final_content, 1, context_end) \o <<NL>> \o change.content
                 \o Suffix(final_content, context_end + 1)
            ELSE (IF final_content # <<>> /\ ~EndsWith(final_content, <<NL>>)
                  THEN final_content \o <<NL>> ELSE final_content) \o change.content
    ELSE IF change.content # <<>>
    THEN (IF final_content # <<>> /\ ~EndsWith(final_content, <<NL>>)
          THEN final_content \o <<NL>> ELSE final_content) \o change.content
    ELSE final_content

\* the loop over reversed(file_changes): the text, the description and the globs so far
RECURSIVE FoldChanges(_, _)
FoldChanges(acc, changes) ==
    IF changes = <<>> THEN acc
    ELSE LET c == Head(changes)
         IN FoldChanges(
              [content |-> ApplyChange(acc.content, c),
               description |-> IF c.file_description # <<>>
                               THEN c.file_description ELSE acc.description,
               globs |-> IF c.file_globs # <<>>
                         THEN JoinQuoted(c.file_globs) ELSE acc.globs],
              Tail(changes))

\* the text after the second delimiter line, the whole text when there is none
BodyContent(final_content) ==
    IF StartsWith(final_content, <<DELIM, NL>>)
    THEN LET parts == SplitMax(final_content, <<DELIM, NL>>, 2)
         IN IF Len(parts) >= 3 THEN parts[3] ELSE final_content
    ELSE final_content

\* current_content: [exists, text]; file_changes: the proposals for one path, in acceptance order
merge_rule_changes(file_changes, current_content) ==
    LET new_file_changes == SelectNewFile(FlattenChanges(file_changes))
    IN IF new_file_changes # <<>>
       THEN MergeNewFile(new_file_changes)
       ELSE LET start == IF current_content.exists THEN current_content.text ELSE <<>>
                current_description == CurrentDescription(start)
                current_globs == CurrentGlobs(start)
                folded == FoldChanges([content |-> start,
                                       description |-> current_description,
                                       globs |-> current_globs],
                                      ReversedChanges(file_changes))
            IN IF (folded.description # current_description \/ folded.globs # current_globs)
                  /\ (folded.description # <<>> \/ folded.globs # <<>>)
               THEN <<DELIM, NL>>
                    \o (IF folded.description # <<>>
                        THEN <<DESC_KEY, SP>> \o folded.description \o <<NL>> ELSE <<>>)
                    \o (IF folded.globs # <<>>
                        THEN <<GLOBS_KEY, SP>> \o folded.globs \o <<NL>> ELSE <<>>)
                    \o <<DELIM, NL, NL>>
                    \o BodyContent(folded.content)
               ELSE folded.content

\* ------------------------------------------------------------ bounds

\* suggestion comments the bot may post on the pull request
MaxSuggestionComments == 2
\* suggestion records kept in the server state
MaxRecords == 2
\* commits the apply handler may create on the branch
MaxCommits == 2
\* bytes of text a word token of a proposal's content stands for ("a1", "n1"; "b1"
\* stands for three times as many); every other word token stands for two bytes
WordBytes == 10000
\* tokens of a comment body given to is_apply_command
MaxBodyLen == 3
\* proposals in one list given to merge_rule_changes on its own
MaxMergeProposals == 2
\* proposals with an anchor or a span in one list given to merge_rule_changes
MaxEdits == 2
\* tokens of a text given to generate_diff
MaxDiffLen == 2
\* accepted proposals in a state given to format_summary_comment on its own
MaxRoundTrip == 2

\* --------------------------------------------------------- constants

\* handlers.py: len(test_summary.encode('utf-8')) > 60000
SizeCeiling == 60000
\* ServerState.max_suggestions_history
max_suggestions_history == 250

APPLIED_SIGNATURE == "RULES_APPLIED"
SUMMARY_SIGNATURE == "CURSOR_RULE_SUGGESTIONS_SUMMARY"
APPLY_COMMAND == "/apply-cursor-rules"
COMMENT_END == "-->"
\* "<!--rule-changes" at the end of a line: with the newline after it, the text
\* parse_summary_state searches for
HIDDEN_OPEN == "<!--rule-changes"

\* ------------------------------------------------------- the inputs

\* the ids of the root review comments (the discussion threads) of the pull request
Threads == {1, 2}

NewPath == ".cursor/rules/new.mdc"
OldPath == ".cursor/rules/old.mdc"
Paths == {NewPath, OldPath}

NoFile == [exists |-> FALSE, text |-> <<>>]

\* the rule documents on the branch of the pull request when it is opened
InitialFiles ==
    [p \in Paths |->
        IF p = OldPath
        THEN [exists |-> TRUE,
              text |-> <<DELIM, NL, DESC_KEY, SP, "d0", NL,
                         GLOBS_KEY, SP, "QUOTE", "g0", "QUOTE", NL,
                         DELIM, NL, NL, "w1", NL>>]
        ELSE NoFile]

RuleChange(type, content, text_to_replace, context, is_new_file, globs, description) ==
    [type |-> type, content |-> content, text_to_replace |-> text_to_replace,
     existing_content_context |-> context, is_new_file |-> is_new_file,
     file_globs |-> globs, file_description |-> description]

\* RuleChange.check_new_file_fields: TRUE when the validator does not raise
check_new_file_fields(change) ==
    /\ change.is_new_file =>
          /\ ~(change.file_globs = <<>> \/ change.file_description = <<>>)
          /\ ~(change.existing_content_context # <<>> \/ change.text_to_replace # <<>>)
    /\ ~(change.type = "replacement" /\ change.text_to_replace = <<>>)

\* what the proposal generator may answer with should_generate = True
CreateProposal ==
    [operation |-> "create", file_path |-> NewPath,
     changes |-> <<RuleChange("addition", <<"n1">>, <<>>, <<>>, TRUE, <<"g1">>, <<"d1">>)>>]

AdditionProposal ==
    [operation |-> "update", file_path |-> OldPath,
     changes |-> <<RuleChange("addition", <<"a1">>, <<>>, <<>>, FALSE, <<>>, <<>>)>>]

\* an addition whose text alone renders to more than the size ceiling
LargeProposal ==
    [operation |-> "update", file_path |-> OldPath,
     changes |-> <<RuleChange("addition", <<"b1">>, <<>>, <<>>, FALSE, <<>>, <<>>)>>]

Proposals == {CreateProposal, AdditionProposal, LargeProposal}

\* what a user may write in the place of the proposal embedded in a suggestion
\* comment: a new document without globs, a new document with an anchor, a
\* Replacement without its span
EditedProposals ==
    {[operation |-> "create", file_path |-> NewPath,
      changes |-> <<RuleChange("addition", <<"a1">>, <<>>, <<>>, TRUE, <<>>, <<"d1">>)>>],
     [operation |-> "create", file_path |-> NewPath,
      changes |-> <<RuleChange("addition", <<"a1">>, <<>>, <<"w1">>, TRUE,
                               <<"g1">>, <<"d1">>)>>],
     [operation |-> "update", file_path |-> OldPath,
      changes |-> <<RuleChange("replacement", <<"a1">>, <<>>, <<>>, FALSE, <<>>, <<>>)>>]}

\* an update whose added line is the applied banner, and a new document whose
\* first line is the opening marker of the hidden state
BannerProposal ==
    [operation |-> "update", file_path |-> OldPath,
     changes |-> <<RuleChange("addition", <<APPLIED_SIGNATURE>>, <<>>, <<>>, FALSE,
                              <<>>, <<>>)>>]

MarkerProposal ==
    [operation |-> "create", file_path |-> NewPath,
     changes |-> <<RuleChange("addition", <<HIDDEN_OPEN, NL, "n2">>, <<>>, <<>>, TRUE,
                              <<"g1">>, <<"d1">>)>>]

\* the proposals of the states given to format_summary_comment on its own
RoundTripProposals == {CreateProposal, AdditionProposal, BannerProposal, MarkerProposal}

\* ------------------------------------------------- models.py, SummaryState

EmptyState == [suggestions |-> <<>>, is_applied |-> FALSE]

\* mutant: the new pair replaces the log, as a writer that read the summary before
\* another acceptance was written would leave it
add_suggestion_overwrites(state, suggestion_id, rule_output) ==
    [state EXCEPT !.suggestions = <<<<suggestion_id, rule_output>>>>]

\* mutant: the new pair is put in front of the log
add_suggestion_prepends(state, suggestion_id, rule_output) ==
    [state EXCEPT !.suggestions = <<<<suggestion_id, rule_output>>>> \o @]

add_suggestion(state, suggestion_id, rule_output) ==
    [state EXCEPT !.suggestions = Append(@, <<suggestion_id, rule_output>>)]

is_empty(state) == Len(state.suggestions) = 0

\* ------------------------------------------- formatters.py, the comments

RECURSIVE ContentOf(_)
ContentOf(changes) ==
    IF changes = <<>> THEN <<>> ELSE Head(changes).content \o ContentOf(Tail(changes))

\* the text of every proposal of the state that the rendered diff blocks show
RECURSIVE ShownText(_)
ShownText(suggestions) ==
    IF suggestions = <<>> THEN <<>>
    ELSE ContentOf(Head(suggestions)[2].changes) \o ShownText(Tail(suggestions))

\* --- generate_diff

\* a line of the output of difflib.Differ.compare: its two-character code and the
\* line of text after it
DifferLine(code, line) == [code |-> code, line |-> line]

\* a line Differ writes after a removed or an added line to point at the characters
\* that differ, or nothing
DifferHints == {<<>>, <<DifferLine("? ", <<"^">>)>>}

\* difflib.Differ().compare(a, b), any output it may give: the lines of a and of b,
\* each in order, a line of a as removed or unchanged, a line of b as added or
\* unchanged, an unchanged line standing for equal lines of both
RECURSIVE DifferCompare(_, _)
DifferCompare(a, b) ==
    IF a = <<>> /\ b = <<>> THEN {<<>>}
    ELSE (IF a # <<>>
          THEN {<<DifferLine("- ", Head(a))>> \o hint \o rest :
                  hint \in DifferHints, rest \in DifferCompare(Tail(a), b)}
          ELSE {})
         \cup (IF b # <<>>
               THEN {<<DifferLine("+ ", Head(b))>> \o hint \o rest :
                       hint \in DifferHints, rest \in DifferCompare(a, Tail(b))}
               ELSE {})
         \cup (IF a # <<>> /\ b # <<>> /\ Head(a) = Head(b)
               THEN {<<DifferLine("  ", Head(a))>> \o rest :
                       rest \in DifferCompare(Tail(a), Tail(b))}
               ELSE {})

\* mutant: the lines that point at characters are kept as unchanged lines
GithubStyle_keeps_hints(diff) ==
    [i \in 1..Len(diff) |->
        <<IF diff[i].code = "- " THEN "-" ELSE IF diff[i].code = "+ " THEN "+" ELSE " ",
          diff[i].line>>]

\* the loop of generate_diff over the output of Differ: (prefix, line) pairs for the
\* unchanged, removed and added lines, the other lines skipped
RECURSIVE GithubStyle(_)
GithubStyle(diff) ==
    IF diff = <<>> THEN <<>>
    ELSE (IF Head(diff).code = "  " THEN <<<<" ", Head(diff).line>>>>
          ELSE IF Head(diff).code = "- " THEN <<<<"-", Head(diff).line>>>>
          ELSE IF Head(diff).code = "+ " THEN <<<<"+", Head(diff).line>>>>
          ELSE <<>>)
         \o GithubStyle(Tail(diff))

\* --- the length in bytes of the rendered summary

\* the fixed texts of format_summary_comment, in UTF-8 bytes
SignatureLineBytes == 42
AppliedHeadBytes == 121
PendingHeadBytes == 23
FileHeadBytes == 9
NewFileOpenBytes == 20
DiffOpenBytes == 9
FenceCloseBytes == 4
SkipLineBytes == 5
ApplyHintBytes == 112
HiddenFrameBytes == 23
NoSuggestionsBytes == 30
FooterBytes == 142
\* json.dumps of the hidden state: the frame, one suggestion without its path and
\* changes (a one-digit id, a one-letter reason), one change with empty content and
\* every optional field null
JsonFrameBytes == 19
JsonSuggestionBytes == 132
JsonChangeBytes == 162
\* a path under .cursor/rules/ with a three-letter name
PathBytes == 21

BigWords == {"a1", "n1"}
HugeWords == {"b1"}

\* the UTF-8 length of the text a token stands for
TokenBytes(t) ==
    IF t \in HugeWords THEN 3 * WordBytes
    ELSE IF t \in BigWords THEN WordBytes
    ELSE IF t \in {NL, SP, "QUOTE", ","} THEN 1
    ELSE IF t = DELIM THEN 3
    ELSE IF t = DESC_KEY THEN 12
    ELSE IF t = GLOBS_KEY THEN 6
    ELSE IF t = APPLIED_SIGNATURE THEN 17
    ELSE IF t = HIDDEN_OPEN THEN 16
    ELSE 2

RECURSIVE TextBytes(_)
TextBytes(s) == IF s = <<>> THEN 0 ELSE TokenBytes(Head(s)) + TextBytes(Tail(s))

\* the length of a text inside a JSON string: newline and quote are escaped
RECURSIVE JsonTextBytes(_)
JsonTextBytes(s) ==
    IF s = <<>> THEN 0
    ELSE (IF Head(s) \in {NL, "QUOTE"} THEN 2
          ELSE IF Head(s) = APPLIED_SIGNATURE THEN 20
          ELSE TokenBytes(Head(s)))
         + JsonTextBytes(Tail(s))

\* the length of lines written one per line, each with `extra` bytes around it
RECURSIVE LinesBytes(_, _)
LinesBytes(lines, extra) ==
    IF lines = <<>> THEN 0
    ELSE TextBytes(Head(lines)) + extra + LinesBytes(Tail(lines), extra)

Min(a, b) == IF a < b THEN a ELSE b

Digits(n) == IF n < 10 THEN 1 ELSE IF n < 100 THEN 2 ELSE 3

\* how many leading lines two lists of lines share
RECURSIVE CommonPrefix(_, _)
CommonPrefix(a, b) ==
    IF a # <<>> /\ b # <<>> /\ Head(a) = Head(b)
    THEN 1 + CommonPrefix(Tail(a), Tail(b)) ELSE 0

\* how many trailing lines they share after the shared leading lines
RECURSIVE CommonSuffix(_, _, _)
CommonSuffix(a, b, room) ==
    IF room > 0 /\ a[Len(a)] = b[Len(b)]
    THEN 1 + CommonSuffix(SubSeq(a, 1, Len(a) - 1), SubSeq(b, 1, Len(b) - 1), room - 1)
    ELSE 0

\* the range of a hunk header of difflib.unified_diff, lines start+1..stop
RangeBytes(start, stop) ==
    IF stop - start = 1 THEN Digits(start + 1)
    ELSE Digits(IF stop = start THEN start ELSE start + 1) + 1 + Digits(stop - start)

\* the hunk of two lists of lines that share p leading and s trailing lines: the
\* hunk header, up to three lines of context before and after, the removed and the
\* added lines, each line with its marker and its newline
HunkBytes(old, new, p, s) ==
    10 + RangeBytes(p - Min(3, p), Len(old) - s + Min(3, s))
       + RangeBytes(p - Min(3, p), Len(new) - s + Min(3, s))
    + LinesBytes(SubSeq(old, p - Min(3, p) + 1, Len(old) - s + Min(3, s)), 2)
    + LinesBytes(SubSeq(new, p + 1, Len(new) - s), 2)

\* the hunk once the shared leading lines are counted
HunkAfter(old, new, p) ==
    HunkBytes(old, new, p, CommonSuffix(old, new, Min(Len(old), Len(new)) - p))

\* the length of what the summary shows of difflib.unified_diff(old, new) without
\* its two file header lines.  The two lists differ in one run of lines (shared
\* lines before, shared lines after).
UnifiedDiffBytes(old, new) ==
    IF old = new THEN 0 ELSE HunkAfter(old, new, CommonPrefix(old, new))

\* split_mdc_file: the metadata block and the body of a document
SplitMdcFile(content) ==
    LET parts == SplitMax(content, <<DELIM, NL>>, 2)
    IN IF StartsWith(content, <<DELIM, NL>>) /\ Len(parts) >= 3
       THEN <<parts[2], parts[3]>> ELSE <<<<>>, content>>

\* the diff of an existing document, old and new each split into (metadata block,
\* body): the diff of the metadata blocks when they differ, the skip line when both
\* parts differ, the diff of the bodies
SplitDiffBytes(old, new) ==
    (IF old[1] # new[1]
     THEN UnifiedDiffBytes(SplitLines(old[1]), SplitLines(new[1])) ELSE 0)
    + (IF old[1] # new[1] /\ old[2] # new[2] THEN SkipLineBytes ELSE 0)
    + UnifiedDiffBytes(SplitLines(old[2]), SplitLines(new[2]))

\* the block of one file whose merged text is final_content: its heading, then every
\* line as added (new file) or the diff against the document the branch holds
MergedBlockBytes(current, final_content) ==
    FileHeadBytes + PathBytes
    + (IF ~current.exists
       THEN NewFileOpenBytes + LinesBytes(SplitLines(final_content), 3)
       ELSE DiffOpenBytes
            + SplitDiffBytes(SplitMdcFile(current.text), SplitMdcFile(final_content)))
    + FenceCloseBytes

\* the block of one file: its heading and the diff of the merge of its proposals
\* against the document the branch holds
FileBlockBytes(file_changes, current) ==
    MergedBlockBytes(current, merge_rule_changes(file_changes, current))

\* the proposals the generator can make about one path
ProposalsAbout(path) == {r \in Proposals : r.file_path = path}

\* the proposals a suggestion comment can embed about one path
EmbeddedAbout(path) == {r \in Proposals \cup EditedProposals : r.file_path = path}

\* a proposal puts its content into the summary twice, in the diff block and in the
\* hidden JSON: a summary within the ceiling holds at most this many proposals, and
\* the guard of the acceptance handler renders at most one more
MaxAccepted == (SizeCeiling - 1) \div (2 * WordBytes)

\* the documents the branch can hold at one path after at most n commits
RECURSIVE DocumentsAfter(_, _)
DocumentsAfter(path, n) ==
    IF n = 0 THEN {InitialFiles[path]}
    ELSE LET before == DocumentsAfter(path, n - 1)
         IN before \cup
            {[exists |-> TRUE, text |-> merge_rule_changes(file_changes, current)] :
               file_changes \in SeqsUpTo(ProposalsAbout(path), MaxAccepted) \ {<<>>},
               current \in before}

\* FileBlockBytes of every list of proposals the handlers can render against every
\* document the branch can hold, computed once; a list or a document outside the
\* table has no value
FileBlockTable ==
    [k \in {<<file_changes, current>> :
               file_changes \in UNION {SeqsUpTo(EmbeddedAbout(p), MaxAccepted + 1) :
                                         p \in Paths},
               current \in UNION {DocumentsAfter(p, MaxCommits) : p \in Paths}}
       |-> FileBlockBytes(k[1], k[2])]

\* the same for the lists of the states given to format_summary_comment on its own,
\* over the documents of the branch as the pull request is opened
RoundTripTable ==
    [k \in {<<file_changes, current>> :
               file_changes \in UNION {SeqsUpTo({r \in RoundTripProposals :
                                                     r.file_path = p}, MaxRoundTrip) :
                                         p \in Paths},
               current \in {InitialFiles[p] : p \in Paths}}
       |-> FileBlockBytes(k[1], k[2])]

\* json.dumps of an optional text: null, or the text between quotes
JsonOptionalBytes(s) == IF s = <<>> THEN 4 ELSE 2 + JsonTextBytes(s)

\* json.dumps of a list of globs
RECURSIVE JsonGlobsBytes(_)
JsonGlobsBytes(globs) ==
    IF globs = <<>> THEN 0
    ELSE 2 + TokenBytes(Head(globs)) + (IF Len(globs) > 1 THEN 2 ELSE 0)
         + JsonGlobsBytes(Tail(globs))

\* json.dumps of the changes of a proposal, without the brackets
RECURSIVE JsonChangesBytes(_)
JsonChangesBytes(changes) ==
    IF changes = <<>> THEN 0
    ELSE LET c == Head(changes)
         IN JsonChangeBytes - 16
            + (IF c.type = "replacement" THEN 3 ELSE 0)
            + JsonTextBytes(c.content)
            + JsonOptionalBytes(c.text_to_replace)
            + JsonOptionalBytes(c.existing_content_context)
            + (IF c.is_new_file THEN -1 ELSE 0)
            + (IF c.file_globs = <<>> THEN 4 ELSE 2 + JsonGlobsBytes(c.file_globs))
            + JsonOptionalBytes(c.file_description)
            + (IF Len(changes) > 1 THEN 2 ELSE 0)
            + JsonChangesBytes(Tail(changes))

\* json.dumps of the suggestions of the hidden state, without the frame
RECURSIVE JsonSuggestionsBytes(_)
JsonSuggestionsBytes(suggestions) ==
    IF suggestions = <<>> THEN 0
    ELSE JsonSuggestionBytes + PathBytes + JsonChangesBytes(Head(suggestions)[2].changes)
         + (IF Len(suggestions) > 1 THEN 2 ELSE 0)
         + JsonSuggestionsBytes(Tail(suggestions))

\* the proposals of a list of (id, proposal) pairs for one path, in list order
ProposalsFor(suggestions, path) ==
    SelectSeq([i \in 1..Len(suggestions) |-> suggestions[i][2]],
              LAMBDA r : r.file_path = path)

\* the blocks of the files the suggestions are about
RECURSIVE FileBlocksBytes(_, _, _)
FileBlocksBytes(suggestions, current_rules, paths) ==
    IF paths = {} THEN 0
    ELSE LET p == CHOOSE q \in paths : TRUE
             file_changes == ProposalsFor(suggestions, p)
         IN (IF file_changes = <<>> THEN 0
             ELSE IF \E i \in 1..Len(file_changes) :
                        file_changes[i] \in {BannerProposal, MarkerProposal}
             THEN RoundTripTable[<<file_changes, current_rules[p]>>]
             ELSE FileBlockTable[<<file_changes, current_rules[p]>>])
            + FileBlocksBytes(suggestions, current_rules, paths \ {p})

\* len(format_summary_comment(state, current_rules).encode('utf-8'))
SummaryBytes(state, current_rules) ==
    SignatureLineBytes
    + (IF state.is_applied THEN AppliedHeadBytes ELSE PendingHeadBytes)
    + (IF Len(state.suggestions) = 0 THEN NoSuggestionsBytes
       ELSE FileBlocksBytes(state.suggestions, current_rules, DOMAIN current_rules)
            + (IF state.is_applied THEN 0 ELSE ApplyHintBytes)
            + HiddenFrameBytes + JsonFrameBytes + JsonSuggestionsBytes(state.suggestions))
    + (IF state.is_applied THEN 0 ELSE FooterBytes)

\* the body of a summary comment: the signature line, the banner when applied, the
\* bot's signatures that the diff blocks show, the hidden JSON (only when the state
\* holds a suggestion), and the length of the whole text
format_summary_comment(state, current_rules) ==
    [kind |-> "summary",
     applied_banner |-> state.is_applied,
     shown |-> {APPLIED_SIGNATURE, HIDDEN_OPEN}
               \cap {ShownText(state.suggestions)[i] :
                        i \in 1..Len(ShownText(state.suggestions))},
     hidden |-> IF is_empty(state) THEN <<>> ELSE state.suggestions,
     bytes |-> SummaryBytes(state, current_rules)]

\* format_suggestion_comment, where the preview of an Addition with an anchor puts
\* the added lines: the first line i of the document such that the lines from i on,
\* stripped, are the lines of the anchor, stripped; 0 when there is none
PreviewAnchor(content, existing_content_context) ==
    LET existing_content == SplitLines(content)
        context_lines == SplitLines(existing_content_context)
        hits == {i \in 1..Len(existing_content) :
                   /\ i - 1 + Len(context_lines) <= Len(existing_content)
                   /\ \A j \in 1..Len(context_lines) :
                         Strip(existing_content[i - 1 + j]) = Strip(context_lines[j])}
    IN IF hits = {} THEN 0 ELSE CHOOSE i \in hits : \A k \in hits : i <= k

\* the body of a suggestion comment: signature, thread marker, hidden proposal
format_suggestion_comment(rule, thread_root_id) ==
    [kind |-> "suggestion", marker |-> thread_root_id, rule |-> rule]

\* ------------------------------------------------------------ state

VARIABLES
    is_disabled,         \* ServerMode.is_disabled
    enabled,             \* ConnectedRepository.enabled, for the repository of the pull request
    dry_run,             \* ServerMode.dry_run
    issue_comments,      \* the issue comments of the pull request that carry a bot signature
    review_comments,     \* the review comments of the pull request that carry a bot signature
    comment_cache,       \* handlers.comment_cache, the entry of the pull request
    recent_suggestions,  \* ServerState.recent_suggestions
    files,               \* the rule documents on the branch of the pull request
    commits,             \* commits created by create_commit_for_changes
    inflight,            \* handle_new_suggestion calls suspended at the proposal generator:
                         \* how many of each (comment, thread root, dry_run)
    last,                \* the event handled last and what its handler returned
    call                 \* the function called last on its own: name, arguments, result,
                         \* whether it raised

vars == <<is_disabled, enabled, dry_run, issue_comments, review_comments, comment_cache,
          recent_suggestions, files, commits, inflight, last, call>>

\* the state of the server and of the pull request
server_vars == <<is_disabled, enabled, dry_run, issue_comments, review_comments,
                 comment_cache, recent_suggestions, files, commits, inflight, last>>

\* what the handlers of comment events and the functions called on their own leave
\* alone: the switches of the server and of the repository, the last function call
switches == <<is_disabled, enabled, call>>

\* no function has been called on its own
NoCall == [fn |-> "none", args |-> <<>>, result |-> <<>>, raised |-> FALSE]

\* a suspended handle_new_suggestion call: its comment, thread root and dry_run argument
Tasks ==
    {[comment_id |-> t, thread_root_id |-> t, dry_run |-> d] : t \in Threads, d \in BOOLEAN}

RECURSIVE SumOver(_, _)
SumOver(f, S) ==
    IF S = {} THEN 0
    ELSE LET e == CHOOSE e \in S : TRUE IN f[e] + SumOver(f, S \ {e})

Suspended == SumOver(inflight, Tasks)

\* what a handler returned: the event kind, the message (the detail of the error when
\* it raised), and the comment the event was about where a claim needs it
Outcome(event, msg, id, error) ==
    [event |-> event, msg |-> msg, id |-> id, error |-> error]

Init ==
    /\ is_disabled = FALSE
    /\ enabled = TRUE
    /\ dry_run = TRUE
    /\ issue_comments = <<>>
    /\ review_comments = <<>>
    /\ comment_cache = [valid |-> FALSE, issue |-> <<>>, review |-> <<>>]
    /\ recent_suggestions = <<>>
    /\ files = InitialFiles
    /\ commits = 0
    /\ inflight = [task \in Tasks |-> 0]
    /\ last = Outcome("none", "none", 0, FALSE)
    /\ call = NoCall

\* ------------------------------------------------ handlers.py, helpers

\* mutant: the applied signature is never seen
ContainsAppliedSignature_never(body) == FALSE

\* APPLIED_SIGNATURE in body
ContainsAppliedSignature(body) ==
    body.applied_banner \/ APPLIED_SIGNATURE \in body.shown

\* SUMMARY_SIGNATURE in body
ContainsSummarySignature(body) == body.kind = "summary"

\* invalidate_comment_cache
Invalidated == [valid |-> FALSE, issue |-> <<>>, review |-> <<>>]

\* get_cached_comments: the entry when there is one, else the comments fetched now
get_cached_comments(cache) ==
    IF cache.valid THEN cache
    ELSE [valid |-> TRUE, issue |-> issue_comments, review |-> review_comments]

\* find_or_create_summary, the search: the place of the first summary comment among
\* freshly fetched issue comments, 0 when there is none
FindSummary(comments) ==
    LET hits == {i \in 1..Len(comments) : ContainsSummarySignature(comments[i].body)}
    IN IF hits = {} THEN 0 ELSE CHOOSE i \in hits : \A j \in hits : i <= j

\* mutant: the applied signature is not looked at, the hidden state is always read
parse_summary_state_ignores_applied(body) ==
    IF ~ContainsSummarySignature(body) THEN EmptyState
    ELSE [suggestions |-> body.hidden, is_applied |-> FALSE]

\* parse_summary_state: the applied signature anywhere in the body gives the
\* applied state; else the JSON is read from the first opening marker in the body,
\* and a marker the diff blocks show comes before the hidden state, so that
\* json.loads raises and the state stays empty
parse_summary_state(body) ==
    IF ~ContainsSummarySignature(body) THEN EmptyState
    ELSE IF ContainsAppliedSignature(body)
    THEN [suggestions |-> <<>>, is_applied |-> TRUE]
    ELSE IF HIDDEN_OPEN \in body.shown THEN EmptyState
    ELSE [suggestions |-> body.hidden, is_applied |-> FALSE]

\* mutant: the validator of RuleChange is not run
ExtractValid_without_validator(body) ==
    \A i \in 1..Len(body.rule.changes) :
        ~Contains(body.rule.changes[i].content, <<COMMENT_END>>)

\* extract_rule_generation_output and model_validate_json: the JSON between the
\* opening marker and the first "-->", which is no JSON when the proposal's text
\* holds "-->", then the validator of every change
ExtractValid(body) ==
    \A i \in 1..Len(body.rule.changes) :
        /\ ~Contains(body.rule.changes[i].content, <<COMMENT_END>>)
        /\ check_new_file_fields(body.rule.changes[i])

get_root_comment_id(comment) ==
    IF comment.in_reply_to_id # 0 THEN comment.in_reply_to_id ELSE comment.id

\* mutant: only the issue comments are scanned
has_existing_suggestion_issue_only(cached, thread_root_id) ==
    \E i \in 1..Len(cached.issue) :
        cached.issue[i].body.kind = "suggestion"
        /\ cached.issue[i].body.marker = thread_root_id

\* has_existing_suggestion over the cached (issue comments, review comments)
has_existing_suggestion(cached, thread_root_id) ==
    \/ \E i \in 1..Len(cached.issue) :
          cached.issue[i].body.kind = "suggestion"
          /\ cached.issue[i].body.marker = thread_root_id
    \/ \E i \in 1..Len(cached.review) :
          cached.review[i].body.kind = "suggestion"
          /\ cached.review[i].body.marker = thread_root_id

\* ServerState.add_suggestion
AddRecord(records, suggestion) ==
    LET s == IF suggestion.is_dry_run THEN [suggestion EXCEPT !.status = "dry_run"]
             ELSE suggestion
        all == Append(records, s)
    IN IF Len(all) > max_suggestions_history
       THEN SubSeq(all, Len(all) - max_suggestions_history + 1, Len(all))
       ELSE all

\* the first of the places `hits` of a list the code walks in order, 0 when none
FirstRecord(hits) ==
    IF hits = {} THEN 0 ELSE CHOOSE i \in hits : \A j \in hits : i <= j

\* handlers.update_suggestion_status: the first record with the id gets the status
update_suggestion_status(records, suggestion_id, status) ==
    LET i == FirstRecord({k \in 1..Len(records) : records[k].id = suggestion_id})
    IN IF i = 0 THEN records ELSE [records EXCEPT ![i].status = status]

\* the loop of handle_apply_command over state.suggestions
RECURSIVE MarkApplied(_, _)
MarkApplied(records, suggestions) ==
    IF suggestions = <<>> THEN records
    ELSE MarkApplied(update_suggestion_status(records, Head(suggestions)[1], "applied"),
                     Tail(suggestions))

\* handle_suggestion_acceptance: the first record of the thread root, found by
\* thread_root_id, is set to pending through its id
MarkPending(records, thread_root_id) ==
    LET i == FirstRecord({k \in 1..Len(records) : records[k].thread_root_id = thread_root_id})
    IN IF i = 0 THEN records ELSE update_suggestion_status(records, records[i].id, "pending")

\* ----------------------------------------- rule_applier.apply_rule_changes

\* the proposals of the state for one path, in acceptance order
ChangesFor(suggestions, path) ==
    LET rules == [i \in 1..Len(suggestions) |-> suggestions[i][2]]
    IN SelectSeq(rules, LAMBDA r : r.file_path = path)

\* mutant: the proposals of a path are merged as if the branch held no document
apply_rule_changes_over_nothing(branch, state) ==
    [p \in Paths |->
        IF ChangesFor(state.suggestions, p) = <<>> THEN branch[p]
        ELSE [exists |-> TRUE,
              text |-> merge_rule_changes(ChangesFor(state.suggestions, p), NoFile)]]

\* final_changes, written over the branch by the one commit
apply_rule_changes(branch, state) ==
    [p \in Paths |->
        IF ChangesFor(state.suggestions, p) = <<>> THEN branch[p]
        ELSE [exists |-> TRUE,
              text |-> merge_rule_changes(ChangesFor(state.suggestions, p), branch[p])]]

\* ------------------------------------------- handlers.py, the handlers

\* where an external collaborator of the apply handler may raise
Faults == {"none", "commit", "edit"}

\* the comments as find_or_create_summary and handle_new_suggestion read them:
\* the cache entry is dropped, then filled from the pull request
Fetched == get_cached_comments(Invalidated)

\* mutant: the statuses are updated whether or not the commit raised
apply_steps_marks_on_failure(fault) ==
    [committed |-> fault # "commit",
     edited |-> fault = "none",
     marked |-> fault # "edit",
     raised |-> fault # "none"]

\* mutant: the statuses are never updated
apply_steps_never_marks(fault) ==
    [committed |-> fault # "commit",
     edited |-> fault = "none",
     marked |-> FALSE,
     raised |-> fault # "none"]

\* the try block of handle_apply_command: which of its steps run when the commit
\* (apply_rule_changes) or the summary edit raises
apply_steps(fault) ==
    [committed |-> fault # "commit",
     edited |-> fault = "none",
     marked |-> fault = "none",
     raised |-> fault # "none"]

ApplyMessage(fault) ==
    IF fault = "none" THEN "Successfully applied"
    ELSE IF fault = "commit" THEN "CommitFailure" ELSE "SummaryEditFailure"

handle_apply_command(fault) ==
    LET idx == FindSummary(Fetched.issue)
        state == IF idx = 0 THEN EmptyState
                 ELSE parse_summary_state(Fetched.issue[idx].body)
        steps == apply_steps(fault)
    IN IF idx = 0 \/ is_empty(state) \/ state.is_applied
       THEN /\ fault = "none"
            /\ comment_cache' = Fetched
            /\ last' = Outcome("apply",
                               IF idx = 0 THEN "No suggestions to apply"
                               ELSE IF is_empty(state) THEN "No accepted suggestions to apply"
                               ELSE "Rules already applied",
                               0, FALSE)
            /\ UNCHANGED <<dry_run, issue_comments, review_comments, recent_suggestions,
                           files, commits, inflight>>
       ELSE \E applied_state \in {[state EXCEPT !.is_applied = TRUE]} :
            \E edited \in {[issue_comments EXCEPT
                             ![idx].body = format_summary_comment(applied_state, files)]} :
            /\ fault = "edit" => commits + 1 < MaxCommits
            /\ files' = IF steps.committed THEN apply_rule_changes(files, state) ELSE files
            /\ commits' = IF steps.committed THEN commits + 1 ELSE commits
            /\ issue_comments' = IF steps.edited THEN edited ELSE issue_comments
            /\ comment_cache' = IF steps.edited THEN [Fetched EXCEPT !.issue = edited]
                                ELSE Fetched
            /\ recent_suggestions' =
                 IF steps.marked THEN MarkApplied(recent_suggestions, state.suggestions)
                 ELSE recent_suggestions
            /\ last' = Outcome("apply", ApplyMessage(fault), 0, steps.raised)
            /\ UNCHANGED <<dry_run, review_comments, inflight>>

\* mutant: the apply command is processed in dry-run mode too
ApplyCommandEvent_ignores_dry_run ==
    /\ UNCHANGED switches
    /\ \E fault \in Faults : handle_apply_command(fault)

\* handle_pr_comment for a comment whose body is the apply command
ApplyCommandEvent ==
    /\ UNCHANGED switches
    /\ \E fault \in Faults :
          IF dry_run
          THEN /\ fault = "none"
               /\ last' = Outcome("apply",
                                  "Dry run - apply command would have been processed",
                                  0, FALSE)
               /\ UNCHANGED <<dry_run, issue_comments, review_comments, comment_cache,
                              recent_suggestions, files, commits, inflight>>
          ELSE handle_apply_command(fault)

\* handle_pr_comment for an issue comment that is not the apply command
IssueCommentEvent ==
    /\ UNCHANGED switches
    /\ last' = Outcome("issue", "Issue comments are not processed", 0, FALSE)
    /\ UNCHANGED <<dry_run, issue_comments, review_comments, comment_cache,
                   recent_suggestions, files, commits, inflight>>

\* the summary is found and carries the applied signature (handle_pr_comment)
SummaryLocked ==
    /\ FindSummary(Fetched.issue) # 0
    /\ ContainsAppliedSignature(Fetched.issue[FindSummary(Fetched.issue)].body)

\* mutant: the guard never rejects
exceeds_size_limit_never(test_summary) == FALSE

\* the size guard: the summary with the proposal added is longer than the ceiling
exceeds_size_limit(test_summary) == test_summary.bytes > SizeCeiling

handle_suggestion_acceptance(comment) ==
    LET idx == FindSummary(Fetched.issue)
        created == idx = 0
        comments1 == IF created
                     THEN Append(issue_comments,
                                 [id |-> Len(issue_comments) + 1,
                                  body |-> format_summary_comment(EmptyState, files)])
                     ELSE issue_comments
        sidx == IF created THEN Len(comments1) ELSE idx
        cache1 == IF created THEN Invalidated ELSE Fetched
        state == parse_summary_state(comments1[sidx].body)
    IN IF ~ExtractValid(comment.body)
       THEN /\ last' = Outcome("accept", "Invalid rule generation output format",
                               comment.id, TRUE)
            /\ comment_cache' = Fetched
            /\ UNCHANGED <<dry_run, issue_comments, review_comments, recent_suggestions,
                           files, commits, inflight>>
       ELSE \E test_state \in {add_suggestion(state, comment.id, comment.body.rule)} :
            \E test_summary \in {format_summary_comment(test_state, files)} :
            IF state.is_applied \/ exceeds_size_limit(test_summary)
            THEN /\ last' = Outcome("accept",
                                    IF state.is_applied THEN "Rules already applied"
                                    ELSE "Cannot accept suggestion: size limit",
                                    IF state.is_applied THEN 0 ELSE comment.id, FALSE)
                 /\ issue_comments' = comments1
                 /\ comment_cache' = cache1
                 /\ UNCHANGED <<dry_run, review_comments, recent_suggestions, files,
                                commits, inflight>>
            ELSE /\ issue_comments' = [comments1 EXCEPT ![sidx].body = test_summary]
                 /\ comment_cache' =
                      IF cache1.valid
                      THEN [cache1 EXCEPT !.issue = [comments1 EXCEPT
                                                       ![sidx].body = test_summary]]
                      ELSE cache1
                 /\ recent_suggestions' =
                      MarkPending(recent_suggestions, get_root_comment_id(comment))
                 /\ last' = Outcome("accept", "Updated summary with accepted suggestion",
                                    comment.id, FALSE)
                 /\ UNCHANGED <<dry_run, review_comments, files, commits, inflight>>

\* mutant: an acceptance is processed in dry-run mode too
AcceptanceEvent_ignores_dry_run ==
    /\ UNCHANGED switches
    /\ \E k \in 1..Len(review_comments) :
          IF SummaryLocked
          THEN /\ last' = Outcome("accept", "Rules already applied", 0, FALSE)
               /\ comment_cache' = Fetched
               /\ UNCHANGED <<dry_run, issue_comments, review_comments, recent_suggestions,
                              files, commits, inflight>>
          ELSE handle_suggestion_acceptance(review_comments[k])

\* handle_pr_comment for a review comment that is a suggestion of the bot with its
\* box checked
AcceptanceEvent ==
    /\ UNCHANGED switches
    /\ \E k \in 1..Len(review_comments) :
          IF SummaryLocked \/ dry_run
          THEN /\ last' = Outcome("accept",
                                  IF SummaryLocked THEN "Rules already applied"
                                  ELSE "Dry run - suggestion acceptance would have been processed",
                                  0, FALSE)
               /\ comment_cache' = Fetched
               /\ UNCHANGED <<dry_run, issue_comments, review_comments, recent_suggestions,
                              files, commits, inflight>>
          ELSE handle_suggestion_acceptance(review_comments[k])

\* handle_pr_comment for a review comment that is a reply and no checked suggestion
ReplyCommentEvent ==
    /\ UNCHANGED switches
    /\ last' = Outcome("reply",
                       IF SummaryLocked THEN "Rules already applied"
                       ELSE "Reply comments are not processed for new suggestions",
                       0, FALSE)
    /\ comment_cache' = Fetched
    /\ UNCHANGED <<dry_run, issue_comments, review_comments, recent_suggestions, files,
                   commits, inflight>>

\* handle_pr_comment and handle_new_suggestion for the root review comment t, up to
\* the first call of the proposal generator, where the handler is suspended
NewCommentEvent ==
    \E t \in Threads :
        LET comment == [id |-> t, in_reply_to_id |-> 0]
            thread_root_id == get_root_comment_id(comment)
            task == [comment_id |-> t, thread_root_id |-> thread_root_id,
                     dry_run |-> dry_run]
            skip == SummaryLocked \/ has_existing_suggestion(Fetched, thread_root_id)
        IN /\ UNCHANGED switches
           /\ comment_cache' = Fetched
           /\ IF skip
              THEN /\ last' = Outcome("new",
                                      IF SummaryLocked THEN "Rules already applied"
                                      ELSE "Suggestion already exists for this thread",
                                      t, FALSE)
                   /\ UNCHANGED inflight
              ELSE /\ Len(review_comments) + Suspended < MaxSuggestionComments
                   /\ Len(recent_suggestions) + Suspended < MaxRecords
                   /\ inflight' = [inflight EXCEPT ![task] = @ + 1]
                   /\ last' = Outcome("new", "generating", t, FALSE)
           /\ UNCHANGED <<dry_run, issue_comments, review_comments, recent_suggestions,
                          files, commits>>

\* handle_new_suggestion resumed: the generator answers that no rule is needed
GenerationRejects ==
    \E task \in Tasks :
        /\ UNCHANGED switches
        /\ inflight[task] > 0
        /\ inflight' = [inflight EXCEPT ![task] = @ - 1]
        /\ last' = Outcome("generated", "Comment does not need a rule suggestion",
                           0, FALSE)
        /\ UNCHANGED <<dry_run, issue_comments, review_comments, comment_cache,
                       recent_suggestions, files, commits>>

\* mutant: the dry-run record keeps the thread root of its comment
DryRunRecord_with_thread_root(task) ==
    [id |-> task.comment_id, status |-> "dry_run",
     thread_root_id |-> task.thread_root_id, is_dry_run |-> TRUE]

\* the RecentSuggestion of a dry run: the id of the comment that was read, no
\* thread_root_id (it is kept in dry_run_preview only)
DryRunRecord(task) ==
    [id |-> task.comment_id, status |-> "dry_run",
     thread_root_id |-> 0, is_dry_run |-> TRUE]

\* handle_new_suggestion resumed: the generator answers with a proposal, which is
\* recorded (dry run) or posted as a reply to the comment
GenerationProposes ==
    \E task \in Tasks, rule \in Proposals :
        LET new_id == Cardinality(Threads) + Len(review_comments) + 1
        IN /\ UNCHANGED switches
           /\ inflight[task] > 0
           /\ inflight' = [inflight EXCEPT ![task] = @ - 1]
           /\ IF task.dry_run
              THEN /\ recent_suggestions' =
                        AddRecord(recent_suggestions, DryRunRecord(task))
                   /\ last' = Outcome("generated",
                                      "Dry run - rule suggestion generated but not posted",
                                      0, FALSE)
                   /\ UNCHANGED <<review_comments, comment_cache>>
              ELSE /\ review_comments' =
                        Append(review_comments,
                               [id |-> new_id, in_reply_to_id |-> task.comment_id,
                                body |-> format_suggestion_comment(rule, task.thread_root_id)])
                   /\ recent_suggestions' =
                        AddRecord(recent_suggestions,
                                  [id |-> new_id, status |-> "suggested",
                                   thread_root_id |-> task.thread_root_id,
                                   is_dry_run |-> FALSE])
                   /\ comment_cache' = Invalidated
                   /\ last' = Outcome("generated", "Posted new rule suggestion",
                                      0, FALSE)
           /\ UNCHANGED <<dry_run, issue_comments, files, commits>>

\* main.update_mode, StateManager.set_mode(dry_run = ...)
update_mode ==
    /\ UNCHANGED switches
    /\ dry_run' = ~dry_run
    /\ last' = Outcome("mode", "Mode updated successfully", 0, FALSE)
    /\ UNCHANGED <<issue_comments, review_comments, comment_cache, recent_suggestions,
                   files, commits, inflight>>

\* events are delivered at any time: a handler suspended at the generator leaves the
\* event loop to the other handlers
Next ==
    \/ ApplyCommandEvent
    \/ IssueCommentEvent
    \/ AcceptanceEvent
    \/ ReplyCommentEvent
    \/ NewCommentEvent
    \/ GenerationRejects
    \/ GenerationProposes
    \/ update_mode

Spec == Init /\ [][Next]_vars

\* events are handled one at a time: no event is delivered while a handler is suspended
Idle == Suspended = 0

NextSerial ==
    \/ Idle /\ ApplyCommandEvent
    \/ Idle /\ IssueCommentEvent
    \/ Idle /\ AcceptanceEvent
    \/ Idle /\ ReplyCommentEvent
    \/ Idle /\ NewCommentEvent
    \/ Idle /\ update_mode
    \/ GenerationRejects
    \/ GenerationProposes

SpecSerial == Init /\ [][NextSerial]_vars

\* ------------------------------- suggestion comments edited by a user

\* a user edits a suggestion comment of the bot, once: the comment keeps its author
\* and its signature, the embedded proposal is another; no handler runs
SuggestionEdited ==
    \E k \in 1..Len(review_comments), rule \in EditedProposals :
        /\ \A j \in 1..Len(review_comments) : review_comments[j].body.rule \in Proposals
        /\ review_comments' = [review_comments EXCEPT ![k].body.rule = rule]
        /\ last' = Outcome("edited", "none", review_comments[k].id, FALSE)
        /\ UNCHANGED <<dry_run, issue_comments, comment_cache, recent_suggestions,
                       files, commits, inflight, switches>>

NextEdited ==
    \/ Idle /\ ApplyCommandEvent
    \/ Idle /\ AcceptanceEvent
    \/ Idle /\ NewCommentEvent
    \/ Idle /\ update_mode
    \/ Idle /\ SuggestionEdited
    \/ GenerationRejects
    \/ GenerationProposes

SpecEdited == Init /\ [][NextEdited]_vars

\* ------------------------------------------------ main.py, the webhook

\* the action of a delivery of a comment event
DeliveryActions == {"created", "edited"}

\* webhook, from the mode test to the call of handle_pr_comment: the message it
\* returns without calling it, "handle_pr_comment" when it calls it
webhook_gate(action) ==
    IF is_disabled THEN "Server is disabled"
    ELSE IF ~enabled THEN "Repository is disabled"
    ELSE IF action # "created" THEN "Ignoring action"
    ELSE "handle_pr_comment"

\* mutant: the switch of the repository is not read
Delivered_to_disabled_repository == webhook_gate("created") # "Server is disabled"

\* a delivery with action 'created' gets to handle_pr_comment
Delivered == webhook_gate("created") = "handle_pr_comment"

\* webhook returning before handle_pr_comment, for a delivery about the suggestion
\* comment k with its box checked (k > 0) or about another comment (k = 0)
WebhookReturnsEarly ==
    \E action \in DeliveryActions, k \in 0..Len(review_comments) :
        /\ webhook_gate(action) # "handle_pr_comment"
        /\ last' = Outcome("webhook", webhook_gate(action),
                           IF k = 0 THEN 0 ELSE review_comments[k].id, FALSE)
        /\ UNCHANGED <<is_disabled, enabled, dry_run, issue_comments, review_comments,
                       comment_cache, recent_suggestions, files, commits, inflight, call>>

\* main.update_mode, StateManager.set_mode(is_disabled = ...)
update_mode_is_disabled ==
    /\ is_disabled' = ~is_disabled
    /\ last' = Outcome("mode", "Mode updated successfully", 0, FALSE)
    /\ UNCHANGED <<enabled, dry_run, issue_comments, review_comments, comment_cache,
                   recent_suggestions, files, commits, inflight, call>>

\* main.update_repository, ServerState.set_repository_enabled
update_repository ==
    /\ enabled' = ~enabled
    /\ last' = Outcome("repository", "Repository updated", 0, FALSE)
    /\ UNCHANGED <<is_disabled, dry_run, issue_comments, review_comments, comment_cache,
                   recent_suggestions, files, commits, inflight, call>>

\* deliveries go through webhook, one at a time; the switches are set at any time
NextWebhook ==
    \/ Idle /\ Delivered /\ ApplyCommandEvent
    \/ Idle /\ Delivered /\ IssueCommentEvent
    \/ Idle /\ Delivered /\ AcceptanceEvent
    \/ Idle /\ Delivered /\ ReplyCommentEvent
    \/ Idle /\ Delivered /\ NewCommentEvent
    \/ Idle /\ WebhookReturnsEarly
    \/ update_mode
    \/ update_mode_is_disabled
    \/ update_repository
    \/ GenerationRejects
    \/ GenerationProposes

SpecWebhook == Init /\ [][NextWebhook]_vars

\* ------------------------------------------- functions called on their own

\* the comment bodies given to is_apply_command: the command, white space, a word
\* and the summary signature, in any order
BodyTokens == {APPLY_COMMAND, SP, NL, "x", SUMMARY_SIGNATURE}

Bodies == SeqsUpTo(BodyTokens, MaxBodyLen)

\* mutant: a body that holds the command anywhere is the command
is_apply_command_contains(body) ==
    IF Contains(body, <<SUMMARY_SIGNATURE>>) THEN FALSE
    ELSE Contains(body, <<APPLY_COMMAND>>)

is_apply_command(body) ==
    IF Contains(body, <<SUMMARY_SIGNATURE>>) THEN FALSE
    ELSE Strip(body) = <<APPLY_COMMAND>>

\* a proposal for the document the merge is about, with one change
UpdateOf(change) == [operation |-> "update", file_path |-> OldPath, changes |-> <<change>>]

\* the proposals given to merge_rule_changes: additions without an anchor that set
\* the description, the globs or neither, and new-document changes whose content
\* ends or does not end with a newline
MergeProposals ==
    {UpdateOf(RuleChange("addition", <<"a1">>, <<>>, <<>>, FALSE, <<>>, <<>>)),
     UpdateOf(RuleChange("addition", <<"a2">>, <<>>, <<>>, FALSE, <<>>, <<>>)),
     UpdateOf(RuleChange("addition", <<"a1">>, <<>>, <<>>, FALSE, <<>>, <<"dA">>)),
     UpdateOf(RuleChange("addition", <<"a2">>, <<>>, <<>>, FALSE, <<>>, <<"dB">>)),
     UpdateOf(RuleChange("addition", <<"a1">>, <<>>, <<>>, FALSE, <<"gA">>, <<>>)),
     UpdateOf(RuleChange("addition", <<"a2">>, <<>>, <<>>, FALSE, <<"gB">>, <<>>)),
     UpdateOf(RuleChange("addition", <<"n1">>, <<>>, <<>>, TRUE, <<"g1">>, <<"d1">>)),
     UpdateOf(RuleChange("addition", <<"n2">>, <<>>, <<>>, TRUE, <<"g2">>, <<"d2">>)),
     UpdateOf(RuleChange("addition", <<"n3", NL>>, <<>>, <<>>, TRUE, <<"g3">>, <<"d3">>))}

\* the documents given to merge_rule_changes: none, one with a metadata block, one
\* without
MergeDocuments ==
    {NoFile, InitialFiles[OldPath], [exists |-> TRUE, text |-> <<"w1", NL>>]}

\* is_apply_command called on a comment body
IsApplyCommandCall ==
    \E body \in Bodies :
        /\ call' = [fn |-> "is_apply_command", args |-> <<body>>,
                    result |-> is_apply_command(body), raised |-> FALSE]
        /\ UNCHANGED server_vars

\* merge_rule_changes called on a list of proposals and a document; the function
\* has no raise statement and catches what its own parsing raises, so it returns
MergeCall ==
    \E file_changes \in SeqsUpTo(MergeProposals, MaxMergeProposals),
       current_content \in MergeDocuments :
        /\ call' = [fn |-> "merge_rule_changes",
                    args |-> <<file_changes, current_content>>,
                    result |-> merge_rule_changes(file_changes, current_content),
                    raised |-> FALSE]
        /\ UNCHANGED server_vars

NextCalls ==
    \/ IsApplyCommandCall
    \/ MergeCall

SpecCalls == Init /\ [][NextCalls]_vars

\* ------------------- parse_summary_state on what format_summary_comment renders

\* the states handed to format_summary_comment: logs of proposals, applied or not
RoundTripStates ==
    {[suggestions |-> log, is_applied |-> applied] :
        log \in SeqsUpTo({<<id, r>> : id \in 1..MaxRoundTrip, r \in RoundTripProposals},
                         MaxRoundTrip),
        applied \in BOOLEAN}

InitRoundTrip ==
    /\ is_disabled = FALSE
    /\ enabled = TRUE
    /\ dry_run = TRUE
    /\ issue_comments = <<>>
    /\ review_comments = <<>>
    /\ comment_cache = [valid |-> FALSE, issue |-> <<>>, review |-> <<>>]
    /\ recent_suggestions = <<>>
    /\ files = InitialFiles
    /\ commits = 0
    /\ inflight = [task \in Tasks |-> 0]
    /\ last = Outcome("none", "none", 0, FALSE)
    /\ call \in {[fn |-> "arguments", args |-> <<state, InitialFiles>>,
                   result |-> <<>>, raised |-> FALSE] : state \in RoundTripStates}

\* parse_summary_state(format_summary_comment(state, current_rules)) called on the
\* arguments
RoundTripCall ==
    /\ call.fn = "arguments"
    /\ call' = [fn |-> "parse_summary_state", args |-> call.args,
                result |-> parse_summary_state(
                               format_summary_comment(call.args[1], call.args[2])),
                raised |-> FALSE]
    /\ UNCHANGED server_vars

NextRoundTrip == RoundTripCall

SpecRoundTrip == InitRoundTrip /\ [][NextRoundTrip]_vars

\* ------------------------------- merge_rule_changes on anchors and spans

\* a document with a metadata block whose body holds the line "w1" twice
LongDocument ==
    [exists |-> TRUE,
     text |-> <<DELIM, NL, DESC_KEY, SP, "d0", NL,
                GLOBS_KEY, SP, "QUOTE", "g0", "QUOTE", NL,
                DELIM, NL, NL, "w1", NL, "w2", NL, "w1", NL>>]

\* the documents the edits are merged into: none, an empty one, one without a
\* metadata block that does not end with a newline, one with a metadata block
EditDocuments ==
    {NoFile,
     [exists |-> TRUE, text |-> <<>>],
     [exists |-> TRUE, text |-> <<"w1", NL, "w2">>],
     LongDocument}

\* additions with an anchor that is a line of the documents, two lines of them, a
\* line of them with a space before it, or no text of them (also with a
\* description), and replacements of a span the documents hold or do not hold
EditChanges ==
    {RuleChange("addition", <<"a1">>, <<>>, <<"w1">>, FALSE, <<>>, <<>>),
     RuleChange("addition", <<"a1">>, <<>>, <<"w1", NL, "w2">>, FALSE, <<>>, <<>>),
     RuleChange("addition", <<"a1">>, <<>>, <<SP, "w1">>, FALSE, <<>>, <<>>),
     RuleChange("addition", <<"a1">>, <<>>, <<"zz">>, FALSE, <<>>, <<>>),
     RuleChange("addition", <<"a2">>, <<>>, <<"zz">>, FALSE, <<>>, <<"dA">>),
     RuleChange("replacement", <<"r1">>, <<"w1">>, <<>>, FALSE, <<>>, <<>>),
     RuleChange("replacement", <<"w1", "w1">>, <<"w1">>, <<>>, FALSE, <<>>, <<>>),
     RuleChange("replacement", <<"r1">>, <<"zz">>, <<>>, FALSE, <<>>, <<>>)}

EditProposals == {UpdateOf(change) : change \in EditChanges}

\* the arguments of a call of merge_rule_changes that has not returned yet
Arguments(file_changes, current_content) ==
    [fn |-> "arguments", args |-> <<file_changes, current_content>>,
     result |-> <<>>, raised |-> FALSE]

\* the server as Init leaves it, and the arguments of the call to make
InitEdits ==
    /\ is_disabled = FALSE
    /\ enabled = TRUE
    /\ dry_run = TRUE
    /\ issue_comments = <<>>
    /\ review_comments = <<>>
    /\ comment_cache = [valid |-> FALSE, issue |-> <<>>, review |-> <<>>]
    /\ recent_suggestions = <<>>
    /\ files = InitialFiles
    /\ commits = 0
    /\ inflight = [task \in Tasks |-> 0]
    /\ last = Outcome("none", "none", 0, FALSE)
    /\ call \in {Arguments(file_changes, current_content) :
                    file_changes \in SeqsUpTo(EditProposals, MaxEdits),
                    current_content \in EditDocuments}

\* mutant: outside dry-run mode the function returns the document as it is
MergeArgumentsCall_reads_mode ==
    /\ call.fn \in {"arguments", "merge_rule_changes"}
    /\ call' = [fn |-> "merge_rule_changes", args |-> call.args,
                result |-> IF dry_run
                           THEN merge_rule_changes(call.args[1], call.args[2])
                           ELSE call.args[2].text,
                raised |-> FALSE, again |-> call.fn = "merge_rule_changes"]
    /\ UNCHANGED server_vars

\* merge_rule_changes called, for the first time or again, on the arguments; `again`
\* says that it had been called on them before
MergeArgumentsCall ==
    /\ call.fn \in {"arguments", "merge_rule_changes"}
    /\ call' = [fn |-> "merge_rule_changes", args |-> call.args,
                result |-> merge_rule_changes(call.args[1], call.args[2]),
                raised |-> FALSE, again |-> call.fn = "merge_rule_changes"]
    /\ UNCHANGED server_vars

NextEdits ==
    \/ MergeArgumentsCall
    \/ update_mode
    \/ IssueCommentEvent
    \/ ReplyCommentEvent

SpecEdits == InitEdits /\ [][NextEdits]_vars

\* ------------------------ merge_rule_changes on edits that set no metadata

\* body edits that set neither description nor globs: a span and an anchor that are
\* lines of the body, a span that is the description of the document, an anchor that
\* is its glob, and an addition without anchor
FrameChanges ==
    {RuleChange("replacement", <<"r1">>, <<"w1">>, <<>>, FALSE, <<>>, <<>>),
     RuleChange("addition", <<"a1">>, <<>>, <<"w1">>, FALSE, <<>>, <<>>),
     RuleChange("replacement", <<"r1">>, <<"d0">>, <<>>, FALSE, <<>>, <<>>),
     RuleChange("addition", <<"a1">>, <<>>, <<"g0">>, FALSE, <<>>, <<>>),
     RuleChange("addition", <<"a2">>, <<>>, <<>>, FALSE, <<>>, <<>>)}

FrameProposals == {UpdateOf(change) : change \in FrameChanges}

InitFrame ==
    /\ is_disabled = FALSE
    /\ enabled = TRUE
    /\ dry_run = TRUE
    /\ issue_comments = <<>>
    /\ review_comments = <<>>
    /\ comment_cache = [valid |-> FALSE, issue |-> <<>>, review |-> <<>>]
    /\ recent_suggestions = <<>>
    /\ files = InitialFiles
    /\ commits = 0
    /\ inflight = [task \in Tasks |-> 0]
    /\ last = Outcome("none", "none", 0, FALSE)
    /\ call \in {Arguments(file_changes, current_content) :
                    file_changes \in SeqsUpTo(FrameProposals, MaxEdits),
                    current_content \in {InitialFiles[OldPath], LongDocument}}

NextFrame == MergeArgumentsCall

SpecFrame == InitFrame /\ [][NextFrame]_vars

\* ------------------------------------------- generate_diff on its own

\* the texts given to generate_diff: words and newlines
DiffTexts == SeqsUpTo({"x", "y", NL}, MaxDiffLen)

InitDiff ==
    /\ is_disabled = FALSE
    /\ enabled = TRUE
    /\ dry_run = TRUE
    /\ issue_comments = <<>>
    /\ review_comments = <<>>
    /\ comment_cache = [valid |-> FALSE, issue |-> <<>>, review |-> <<>>]
    /\ recent_suggestions = <<>>
    /\ files = InitialFiles
    /\ commits = 0
    /\ inflight = [task \in Tasks |-> 0]
    /\ last = Outcome("none", "none", 0, FALSE)
    /\ call \in {Arguments(old_text, new_text) :
                    old_text \in DiffTexts, new_text \in DiffTexts}

\* generate_diff(old_text, new_text) called on the arguments
GenerateDiffCall ==
    /\ call.fn = "arguments"
    /\ \E diff \in DifferCompare(SplitLines(call.args[1]), SplitLines(call.args[2])) :
          call' = [fn |-> "generate_diff", args |-> call.args,
                   result |-> GithubStyle(diff), raised |-> FALSE]
    /\ UNCHANGED server_vars

NextDiff == GenerateDiffCall

SpecDiff == InitDiff /\ [][NextDiff]_vars

\* ----------------------- merge_rule_changes called while the server runs

\* lists of at most one proposal: an addition after an anchor, a replacement, an
\* addition that sets the description, a new document
PureProposals ==
    {UpdateOf(RuleChange("addition", <<"a1">>, <<>>, <<"w1">>, FALSE, <<>>, <<>>)),
     UpdateOf(RuleChange("replacement", <<"r1">>, <<"w1">>, <<>>, FALSE, <<>>, <<>>)),
     UpdateOf(RuleChange("addition", <<"a2">>, <<>>, <<>>, FALSE, <<>>, <<"dA">>)),
     UpdateOf(RuleChange("addition", <<"n1">>, <<>>, <<>>, TRUE, <<"g1">>, <<"d1">>))}

InitPure ==
    /\ is_disabled = FALSE
    /\ enabled = TRUE
    /\ dry_run = TRUE
    /\ issue_comments = <<>>
    /\ review_comments = <<>>
    /\ comment_cache = [valid |-> FALSE, issue |-> <<>>, review |-> <<>>]
    /\ recent_suggestions = <<>>
    /\ files = InitialFiles
    /\ commits = 0
    /\ inflight = [task \in Tasks |-> 0]
    /\ last = Outcome("none", "none", 0, FALSE)
    /\ call \in {Arguments(file_changes, current_content) :
                    file_changes \in SeqsUpTo(PureProposals, 1),
                    current_content \in {NoFile, LongDocument}}

\* the events that change the mode, the comment cache, the comments and the
\* suggestion records, and the calls of merge_rule_changes between them
NextPure ==
    \/ MergeArgumentsCall
    \/ update_mode
    \/ IssueCommentEvent
    \/ ReplyCommentEvent
    \/ NewCommentEvent
    \/ GenerationRejects
    \/ GenerationProposes

SpecPure == InitPure /\ [][NextPure]_vars

\* ------------------------------------------------------------ claims

\* the summary comment of the pull request, as the comments hold it
HasSummary == FindSummary(issue_comments) # 0

SummaryBody == issue_comments[FindSummary(issue_comments)].body

\* the summary comment carries the applied banner
Banner == HasSummary /\ SummaryBody.applied_banner

\* the (id, proposal) pairs written in the summary comment, in order
LogOf(comments) ==
    IF FindSummary(comments) = 0 THEN <<>> ELSE comments[FindSummary(comments)].body.hidden

BannerOf(comments) ==
    FindSummary(comments) # 0 /\ comments[FindSummary(comments)].body.applied_banner

\* the apply handler got as far as computing the merge
ApplyAttempted(outcome) ==
    outcome.event = "apply"
    /\ outcome.msg \in {"Successfully applied", "CommitFailure", "SummaryEditFailure"}

\* C1: once the summary comment carries the applied banner, no later event edits it
\* (so the banner stays and the log written in it never changes).
C1_AppliedSummaryIsFinal == [][Banner => issue_comments' = issue_comments]_vars

\* an acceptance was handled on a pull request whose summary carries the banner
C1_Witness == Banner /\ last.event = "accept" /\ last.msg = "Rules already applied"

\* C2: a commit is created only by the handler of an apply command, outside dry-run
\* mode, with a summary comment that is not applied and holds an accepted proposal.
C2_CommitOnlyOnApply ==
    [][commits' # commits =>
          /\ last'.event = "apply"
          /\ ~dry_run
          /\ HasSummary
          /\ ~SummaryBody.applied_banner
          /\ SummaryBody.hidden # <<>>]_vars

C2_Witness == commits > 0 /\ last.event = "apply"

\* C3: the apply command on a pull request whose summary is applied is a no-op: no
\* merge, no commit, the summary unchanged, no suggestion record changed.
C3_ApplyOnAppliedIsNoOp ==
    [][(Banner /\ last'.event = "apply") =>
          /\ ~ApplyAttempted(last')
          /\ UNCHANGED <<files, commits, issue_comments, recent_suggestions>>]_vars

\* an apply command was handled, outside dry-run mode, after the banner was written
C3_Witness ==
    Banner /\ last.event = "apply" /\ last.msg = "No accepted suggestions to apply"

\* C4: the apply command on an applied pull request answers "Rules already applied".
C4_AlreadyAppliedReported ==
    [][(Banner /\ ~dry_run /\ last'.event = "apply") =>
          last'.msg = "Rules already applied"]_vars

\* C5: when the commit step of apply raises, no record changes status, the summary
\* comment is not edited, nothing is committed, and the handler raises.
C5_CommitFailureLeavesState ==
    [][(last'.event = "apply" /\ last'.msg = "CommitFailure") =>
          /\ last'.error
          /\ UNCHANGED <<recent_suggestions, issue_comments, files, commits>>]_vars

\* the commit raised while a record of the log was pending
C5_Witness ==
    /\ last.event = "apply" /\ last.msg = "CommitFailure"
    /\ \E i \in 1..Len(recent_suggestions) : recent_suggestions[i].status = "pending"

\* C6: after an apply that succeeds, also as a retry of an apply that raised, the
\* committed documents are the merge of the log, made once, over the documents the
\* branch held before any apply.
C6_RetryAppliesOnce ==
    (last.event = "apply" /\ last.msg = "Successfully applied") =>
        files = apply_rule_changes(InitialFiles,
                                   [suggestions |-> LogOf(issue_comments),
                                    is_applied |-> FALSE])

RuleOfComment(id) ==
    LET k == CHOOSE k \in 1..Len(review_comments) : review_comments[k].id = id
    IN review_comments[k].body.rule

SuggestionPosted(t) ==
    \/ \E i \in 1..Len(issue_comments) :
          issue_comments[i].body.kind = "suggestion" /\ issue_comments[i].body.marker = t
    \/ \E i \in 1..Len(review_comments) :
          review_comments[i].body.kind = "suggestion" /\ review_comments[i].body.marker = t

C10_AtMostOneSuggestionPerThread ==
    \A t \in Threads :
        Cardinality({i \in 1..Len(review_comments) :
                       review_comments[i].body.marker = t}) <= 1

\* C17: a comment body is taken as the apply command exactly when it does not hold
\* the summary signature and consists of the command string alone, white space
\* around it aside; a body with the command and any other text is not the command.
C17_ApplyCommandIsWholeBody ==
    call.fn = "is_apply_command" =>
        LET body == call.args[1]
        IN call.result <=>
              /\ \A j \in 1..Len(body) : body[j] # SUMMARY_SIGNATURE
              /\ \E i \in 1..Len(body) :
                    /\ body[i] = APPLY_COMMAND
                    /\ \A j \in (1..Len(body)) \ {i} : body[j] \in {SP, NL}

\* the command between a space and a newline is taken as the command
C17_Witness ==
    /\ call.fn = "is_apply_command"
    /\ call.args[1] = <<SP, APPLY_COMMAND, NL>>
    /\ call.result = TRUE

\* the places of the proposals of a list whose change satisfies what `field` names
SettersOf(file_changes, field) ==
    {i \in 1..Len(file_changes) :
        IF field = "description" THEN file_changes[i].changes[1].file_description # <<>>
        ELSE file_changes[i].changes[1].file_globs # <<>>}

\* the greatest element of a non-empty set of numbers
Latest(S) == CHOOSE i \in S : \A j \in S : j <= i

\* merge_rule_changes was called on update proposals and an existing document
UpdateMerge ==
    /\ call.fn = "merge_rule_changes"
    /\ call.args[2].exists
    /\ SelectNewFile(FlattenChanges(call.args[1])) = <<>>

\* C18: when update proposals are merged into an existing document, each metadata
\* field of the result is the one of the most recently accepted proposal that sets it.
C18_LatestMetadataWins ==
    UpdateMerge =>
        LET file_changes == call.args[1]
            d == SettersOf(file_changes, "description")
            g == SettersOf(file_changes, "globs")
        IN /\ d # {} => CurrentDescription(call.result)
                          = file_changes[Latest(d)].changes[1].file_description
           /\ g # {} => CurrentGlobs(call.result)
                          = JoinQuoted(file_changes[Latest(g)].changes[1].file_globs)

\* C19: when additions without an anchor are merged into an existing document, the
\* content of a proposal accepted earlier stands before the content of one accepted
\* later.
C19_BodyInAcceptanceOrder ==
    UpdateMerge =>
        LET file_changes == call.args[1]
        IN \A i, j \in 1..Len(file_changes) :
              (i < j /\ file_changes[i].changes[1].content
                          # file_changes[j].changes[1].content) =>
                 /\ Contains(call.result, file_changes[i].changes[1].content)
                 /\ Contains(call.result, file_changes[j].changes[1].content)
                 /\ Find(call.result, file_changes[i].changes[1].content)
                      < Find(call.result, file_changes[j].changes[1].content)

\* merge_rule_changes was called on two new-document proposals
NewDocumentMerge ==
    /\ call.fn = "merge_rule_changes"
    /\ Len(call.args[1]) = 2
    /\ \A i \in 1..2 : call.args[1][i].changes[1].is_new_file

\* the text of a merged document after its metadata block and the blank line
BodyOf(document) == Tail(BodyContent(document))

SizeRejected(outcome) ==
    outcome.event = "accept" /\ outcome.msg = "Cannot accept suggestion: size limit"

\* the summary with the proposal of suggestion comment `id` added to the log is
\* longer than the ceiling
WouldExceed(id) ==
    SummaryBytes(add_suggestion([suggestions |-> LogOf(issue_comments),
                                 is_applied |-> FALSE], id, RuleOfComment(id)),
                 files) > SizeCeiling

\* C11: an acceptance is rejected by the size guard exactly when the summary with
\* the proposal added would be longer than 60,000 bytes; the rejection is no error,
\* no comment that existed is edited, the log parsed from the summary is the same
\* as before, and no suggestion record changes (a suggested record stays suggested).
C11_SizeGuardRejects ==
    [][(last'.event = "accept" /\ last'.id # 0) =>
          /\ SizeRejected(last') <=> WouldExceed(last'.id)
          /\ SizeRejected(last') =>
                /\ ~last'.error
                /\ \A i \in 1..Len(issue_comments) : issue_comments'[i] = issue_comments[i]
                /\ LogOf(issue_comments') = LogOf(issue_comments)
                /\ UNCHANGED recent_suggestions]_vars

\* a third acceptance was rejected on a summary that holds two proposals, and the
\* record of the rejected suggestion is still suggested
C11_Witness ==
    /\ SizeRejected(last)
    /\ Len(LogOf(issue_comments)) = 2
    /\ \E i \in 1..Len(recent_suggestions) :
          recent_suggestions[i].id = last.id /\ recent_suggestions[i].status = "suggested"

\* C12: an acceptance that the size guard rejects writes nothing to the pull request:
\* no comment is created and none is edited, also when the pull request had no
\* summary comment before.
C12_RejectionWritesNothing ==
    [][SizeRejected(last') => UNCHANGED <<issue_comments, review_comments>>]_vars

\* C13: every summary comment body the system has written, on creation, on
\* acceptance and on apply, is at most 60,000 bytes long.
C13_SummaryWithinCeiling ==
    \A i \in 1..Len(issue_comments) :
        issue_comments[i].body.kind = "summary"
            => issue_comments[i].body.bytes <= SizeCeiling

\* the acceptance handler wrote the summary
Accepted(outcome) ==
    outcome.event = "accept" /\ outcome.msg = "Updated summary with accepted suggestion"

C15_AtMostOneCommit == commits <= 1

\* a step of a handler whose event was received in dry-run mode: a comment event
\* handled while the server is in dry-run mode, or the resumption of a handler that
\* was given dry_run = TRUE when its event came in
DryRunStep ==
    \/ dry_run /\ last'.event \in {"apply", "accept", "issue", "reply", "new"}
    \/ \E task \in Tasks : task.dry_run /\ inflight'[task] < inflight[task]

NewDocumentOverExisting ==
    /\ call.fn = "merge_rule_changes"
    /\ call.args[2].exists
    /\ SelectNewFile(FlattenChanges(call.args[1])) # <<>>

\* C21: when the list of a path holds a new-document proposal and a document exists
\* at that path, the merge raises an error; it does not return a document.
C21_ExistingDocumentConflictRaises == NewDocumentOverExisting => call.raised

\* merge_rule_changes was called on two new-document proposals whose description or
\* globs differ
ConflictingNewDocuments ==
    /\ call.fn = "merge_rule_changes"
    /\ Len(call.args[1]) = 2
    /\ \A i \in 1..2 : call.args[1][i].changes[1].is_new_file
    /\ \/ call.args[1][1].changes[1].file_description
            # call.args[1][2].changes[1].file_description
       \/ call.args[1][1].changes[1].file_globs # call.args[1][2].changes[1].file_globs

\* C22: when two new-document proposals for one path differ in description or
\* globs, the merge reports a conflict (it raises) instead of returning a document
\* with the metadata of one of them.
C22_MetadataConflictRaises == ConflictingNewDocuments => call.raised

\* the number of newlines at the start of a text
RECURSIVE LeadingNewlines(_)
LeadingNewlines(s) ==
    IF s # <<>> /\ Head(s) = NL THEN 1 + LeadingNewlines(Tail(s)) ELSE 0

\* the blank lines between the closing delimiter line of a document and its body
BlankLinesAfterMetadata(document) == LeadingNewlines(BodyContent(document))

\* merge_rule_changes was called on update proposals and a document in canonical
\* format (metadata block, one blank line, body), and the metadata of the result
\* differs from that of the document
MetadataChangedMerge ==
    /\ UpdateMerge
    /\ StartsWith(call.args[2].text, <<DELIM, NL>>)
    /\ BlankLinesAfterMetadata(call.args[2].text) = 1
    /\ \/ CurrentDescription(call.result) # CurrentDescription(call.args[2].text)
       \/ CurrentGlobs(call.result) # CurrentGlobs(call.args[2].text)

\* C29: when a merge changes the metadata of a document in canonical format, exactly
\* one blank line stands between the closing delimiter and the body of the result.
C29_OneBlankLineAfterMetadata ==
    MetadataChangedMerge => BlankLinesAfterMetadata(call.result) = 1

\* the text holds the span somewhere
Occurs(text, span) ==
    \E i \in 1..(Len(text) - Len(span) + 1) : SubSeq(text, i, i + Len(span) - 1) = span

\* the one change of the one proposal merge_rule_changes was called on
TheChange == call.args[1][1].changes[1]

\* merge_rule_changes was called on an existing document and one proposal, an
\* Addition whose anchor does not occur in the document
AnchorAbsentMerge ==
    /\ call.fn = "merge_rule_changes"
    /\ Len(call.args[1]) = 1
    /\ call.args[2].exists
    /\ TheChange.type = "addition"
    /\ TheChange.existing_content_context # <<>>
    /\ ~Occurs(call.args[2].text, TheChange.existing_content_context)

RECURSIVE Substituted(_, _, _)
Substituted(text, span, content) ==
    IF text = <<>> THEN <<>>
    ELSE IF StartsWith(text, span)
    THEN content \o Substituted(SubSeq(text, Len(span) + 1, Len(text)), span, content)
    ELSE <<Head(text)>> \o Substituted(Tail(text), span, content)

\* merge_rule_changes was called on one proposal that is a Replacement
ReplacementMerge ==
    /\ call.fn = "merge_rule_changes"
    /\ Len(call.args[1]) = 1
    /\ TheChange.type = "replacement"
    /\ TheChange.text_to_replace # <<>>

\* C24: a Replacement puts its content in the place of every occurrence of its
\* span in the document; when the span does not occur the text of the document is
\* the result, with nothing appended.
C24_ReplacementSubstitutesAll ==
    ReplacementMerge =>
        /\ call.result = Substituted(call.args[2].text, TheChange.text_to_replace,
                                     TheChange.content)
        /\ ~Occurs(call.args[2].text, TheChange.text_to_replace)
              => call.result = call.args[2].text

\* a span that stands twice in the document was replaced at both places
C24_Witness ==
    /\ ReplacementMerge
    /\ call.args[2] = LongDocument
    /\ TheChange.text_to_replace = <<"w1">>
    /\ TheChange.content = <<"r1">>
    /\ ~Occurs(call.result, <<"w1">>)
    /\ Cardinality({i \in 1..Len(call.result) : call.result[i] = "r1"}) = 2

AnchorMatchMerge ==
    /\ call.fn = "merge_rule_changes"
    /\ Len(call.args[1]) = 1
    /\ call.args[2].exists
    /\ TheChange.type = "addition"
    /\ TheChange.existing_content_context # <<>>
    /\ PreviewAnchor(call.args[2].text, TheChange.existing_content_context) # 0

\* C30: an Addition whose anchor lines match lines of the document when both are
\* trimmed is merged where the preview shows it: the lines of its content stand
\* right after the first match, between the lines of the document.
C30_MergeAtPreviewPosition ==
    AnchorMatchMerge =>
        LET lines == SplitLines(call.args[2].text)
            context_lines == SplitLines(TheChange.existing_content_context)
            stop == PreviewAnchor(call.args[2].text, TheChange.existing_content_context)
                    - 1 + Len(context_lines)
        IN SplitLines(call.result)
             = SubSeq(lines, 1, stop) \o SplitLines(TheChange.content)
               \o SubSeq(lines, stop + 1, Len(lines))

\* the lines of the pairs whose prefix is one of `prefixes`, in order
RECURSIVE LinesMarked(_, _)
LinesMarked(pairs, prefixes) ==
    IF pairs = <<>> THEN <<>>
    ELSE (IF Head(pairs)[1] \in prefixes THEN <<Head(pairs)[2]>> ELSE <<>>)
         \o LinesMarked(Tail(pairs), prefixes)

\* "\n".join(lines)
RECURSIVE JoinLines(_)
JoinLines(lines) ==
    IF lines = <<>> THEN <<>>
    ELSE Head(lines) \o (IF Len(lines) > 1 THEN <<NL>> ELSE <<>>) \o JoinLines(Tail(lines))

\* C26: the added and unchanged lines of generate_diff(old, new), joined with
\* newlines in their order, are new; the removed and unchanged lines are old.
C26_DiffRoundTrip ==
    call.fn = "generate_diff" =>
        /\ JoinLines(LinesMarked(call.result, {"+", " "})) = call.args[2]
        /\ JoinLines(LinesMarked(call.result, {"-", " "})) = call.args[1]

\* two texts of two lines that share their empty first line were compared: the result
\* holds an unchanged, a removed and an added line
C26_Witness ==
    /\ call.fn = "generate_diff"
    /\ call.args = <<<<NL>>, <<NL, "y">>>>
    /\ call.result = << <<" ", <<>>>>, <<"-", <<>>>>, <<"+", <<"y">>>> >>

\* the invariants of a proposal's change: a new document names its globs and its
\* description and carries neither anchor nor span; a Replacement carries a span
ProposalInvariant(change) ==
    /\ change.is_new_file =>
          /\ change.file_globs # <<>> /\ change.file_description # <<>>
          /\ change.existing_content_context = <<>> /\ change.text_to_replace = <<>>
    /\ change.type = "replacement" => change.text_to_replace # <<>>

WellFormed(rule) == \A i \in 1..Len(rule.changes) : ProposalInvariant(rule.changes[i])

\* C27: every proposal written in the summary's log satisfies the proposal
\* invariants, and an acceptance that reaches the handler with a suggestion comment
\* whose embedded proposal violates them is answered with an error and leaves the
\* summary, the files, the commits and the records as they were.
C27_LogHoldsWellFormedProposals ==
    [][/\ \A i \in 1..Len(LogOf(issue_comments')) :
             WellFormed(LogOf(issue_comments')[i][2])
       /\ (last'.event = "accept" /\ last'.id # 0 /\ ~WellFormed(RuleOfComment(last'.id)))
             => /\ last'.error
                /\ UNCHANGED <<issue_comments, files, commits, recent_suggestions>>]_vars

\* an acceptance of an edited suggestion was refused while the log held an entry
C27_Witness ==
    /\ last.event = "accept" /\ last.error /\ last.id # 0
    /\ last.msg = "Invalid rule generation output format"
    /\ ~WellFormed(RuleOfComment(last.id))
    /\ Len(LogOf(issue_comments)) = 1

\* the order of the statuses of a record; a dry-run record is outside it
StatusRank(status) ==
    IF status = "suggested" THEN 1
    ELSE IF status = "pending" THEN 2
    ELSE IF status = "applied" THEN 3
    ELSE 0

\* C28: no step takes a suggestion record back: a pending record never becomes
\* suggested again, an applied record never becomes pending or suggested again.
C28_StatusNeverRegresses ==
    [][\A i \in 1..Len(recent_suggestions) :
          (i <= Len(recent_suggestions')
           /\ recent_suggestions'[i].id = recent_suggestions[i].id)
             => StatusRank(recent_suggestions'[i].status)
                  >= StatusRank(recent_suggestions[i].status)]_vars

\* an acceptance arrived after a record was applied, next to a record still suggested
C28_Witness ==
    /\ last.event = "accept"
    /\ \E i \in 1..Len(recent_suggestions) : recent_suggestions[i].status = "applied"
    /\ \E i \in 1..Len(recent_suggestions) : recent_suggestions[i].status = "suggested"

\* a step in which the engine wrote a comment of the pull request: the summary was
\* created or edited, or a suggestion was posted
CommentWritten ==
    issue_comments' # issue_comments \/ Len(review_comments') > Len(review_comments)

\* C31: every step in which the engine writes a comment of the pull request ends
\* with the comment cache entry of the pull request invalidated.
C31_WriteInvalidatesCache ==
    [][CommentWritten => ~comment_cache'.valid]_vars

\* the step is a delivery about a suggestion comment of the bot with its box checked
CheckedSuggestionDelivery ==
    \/ last'.event = "accept"
    \/ last'.event = "webhook" /\ last'.id # 0

\* C32: with the server and the repository enabled and outside dry-run mode, every
\* delivery about a checked suggestion comment is answered by the acceptance
\* handling of handle_pr_comment, whatever its action is.
C32_CheckedSuggestionReachesHandler ==
    [][(CheckedSuggestionDelivery /\ ~is_disabled /\ enabled /\ ~dry_run)
          => last'.event = "accept"]_vars

\* the gate is closed and no suspended handler is resumed in the step
ClosedGateStep ==
    (is_disabled \/ ~enabled) /\ Suspended' >= Suspended

C33_DryRunRecordKeepsStatus ==
    \A i \in 1..Len(recent_suggestions) :
        recent_suggestions[i].is_dry_run => recent_suggestions[i].status = "dry_run"

\* a dry-run record stands before the record of a suggestion of the same thread that
\* was posted, accepted and applied after the server left dry-run mode
C33_Witness ==
    /\ ~dry_run /\ commits = 1
    /\ Len(recent_suggestions) = 2
    /\ recent_suggestions[1].is_dry_run /\ recent_suggestions[1].status = "dry_run"
    /\ recent_suggestions[2].status = "applied"
    /\ recent_suggestions[2].thread_root_id = recent_suggestions[1].id

\* the paths the proposals of a log are about
TargetPaths(log) == {log[i][2].file_path : i \in 1..Len(log)}

\* the branch after one commit of the log: each target path holds the merge of its
\* proposals, in the order of the log, over what the branch held; the other paths
\* are as they were
Committed(branch, log) ==
    [p \in Paths |->
        IF p \in TargetPaths(log)
        THEN [exists |-> TRUE,
              text |-> merge_rule_changes(ProposalsFor(log, p), branch[p])]
        ELSE branch[p]]

C37_LogIdsDistinct ==
    \A i, j \in 1..Len(LogOf(issue_comments)) :
        LogOf(issue_comments)[i][1] = LogOf(issue_comments)[j][1] => i = j

\* C38: the state parsed from the summary rendered from an unapplied state is not
\* applied and holds the same pairs in the same order, whatever the content of the
\* proposals; a summary parses as applied only when rendered from an applied state.
C38_SummaryRoundTrip ==
    call.fn = "parse_summary_state" =>
        /\ call.result.is_applied => call.args[1].is_applied
        /\ ~call.args[1].is_applied =>
              call.result.suggestions = call.args[1].suggestions

\* C39: the content of every Addition of the list occurs in the merged document,
\* also when the list holds new-document and update proposals for the path.
C39_EveryAdditionOccurs ==
    call.fn = "merge_rule_changes" =>
        \A i \in 1..Len(call.args[1]) :
            \A k \in 1..Len(call.args[1][i].changes) :
                call.args[1][i].changes[k].type = "addition" =>
                    Occurs(call.result, call.args[1][i].changes[k].content)

\* C40: when no proposal of the list sets description or globs, the metadata block
\* of the merged document is the one of the existing document, whatever the spans
\* and the anchors of the proposals.
C40_BodyEditsKeepMetadata ==
    (/\ call.fn = "merge_rule_changes"
     /\ call.args[2].exists
     /\ StartsWith(call.args[2].text, <<DELIM, NL>>)
     /\ \A i \in 1..Len(call.args[1]) :
           \A k \in 1..Len(call.args[1][i].changes) :
               /\ ~call.args[1][i].changes[k].is_new_file
               /\ call.args[1][i].changes[k].file_description = <<>>
               /\ call.args[1][i].changes[k].file_globs = <<>>)
    => /\ StartsWith(call.result, <<DELIM, NL>>)
       /\ MetaBlock(call.result) = MetaBlock(call.args[2].text)

====
